---- MODULE Spec2Model ----
(***************************************************************************)
(* A model of the GLPI API adapter of src/glpi.py (class GLPIClient): the  *)
(* session state, the request dispatcher _send_request, the resolver getId *)
(* with its legacy fallback, and the composite workflow add.               *)
(*                                                                         *)
(* Python values are modelled as follows.  A str is a sequence of          *)
(* one-character strings; NoneText stands for None where a str is          *)
(* expected, PyNone for None where an integer is expected, NoneStr for a   *)
(* missing credential.  The service is the environment: every HTTP         *)
(* exchange draws its response from the set Responses.                     *)
(***************************************************************************)
EXTENDS Integers, Sequences, FiniteSets, TLC

VARIABLES
    config,         \* the configuration the adapter was constructed with
    session_token,  \* self.session_token
    username,       \* self.username
    api_version,    \* self.api_version, the protocol selector
    metrics,        \* self.metrics
    expired,        \* history: a 401 was observed since the last successful authentication
    pre,            \* history: the adapter's fields when the last operation was called
    last,           \* history: the last completed operation, its inputs and its outcome
    wire,           \* history: the HTTP exchanges of the last operation
    add,            \* the call of add in progress: its position, its locals and its history
    threads         \* the calls of _send_request running on threads: position and locals of each

vars == <<config, session_token, username, api_version, metrics, expired, pre, last, wire, add, threads>>

----------------------------------------------------------------------------
\* Bounds of the model.

\* The threads of the application that call the dispatcher at the same time.
NumThreads == 2

\* No operation is started once the requests counter has reached this value.
MaxRequests == 3
\* The longest list of candidates the service answers a search with.
MaxCandidates == 3
\* The same for the resolver, whose calls send up to three requests each.
MaxResolveRequests == 2

----------------------------------------------------------------------------
\* Python values.

PyNone == 0 - 1
NoneStr == "None"
NoneText == <<"<None>">>

\* FalsyText as `t is None`.
FalsyTextOnlyNone(t) == t = NoneText

\* Python truthiness of a str-or-None and of an int-or-None.
FalsyText(t) == t = NoneText \/ t = <<>>
FalsyStr(s) == s = NoneStr \/ s = ""
FalsyInt(n) == n = PyNone \/ n = 0

\* The sentinels getId returns.
PERMISSION_DENIED == 1403
NOT_FOUND == 1404
Sentinels == {PERMISSION_DENIED, NOT_FOUND}

\* str.lower() on one character.
Lower(ch) == CASE ch = "A" -> "a" [] ch = "B" -> "b" [] ch = "U" -> "u" [] OTHER -> ch

RECURSIVE SplitAcc(_, _, _)
SplitAcc(s, cur, acc) ==
    IF s = <<>> THEN (IF cur = <<>> THEN acc ELSE Append(acc, cur))
    ELSE IF Head(s) = " "
         THEN SplitAcc(Tail(s), <<>>, IF cur = <<>> THEN acc ELSE Append(acc, cur))
         ELSE SplitAcc(Tail(s), Append(cur, Head(s)), acc)

\* str.split(): the words between runs of whitespace.
Split(s) == SplitAcc(s, <<>>, <<>>)

RECURSIVE Join(_, _)
Join(words, sep) ==
    IF words = <<>> THEN <<>>
    ELSE IF Len(words) = 1 THEN words[1]
    ELSE words[1] \o sep \o Join(Tail(words), sep)

\* norm(x) = " ".join(str(x).lower().split())
norm(x) == Join(Split([i \in 1..Len(x) |-> Lower(x[i])]), <<" ">>)

\* Python's `sub in s` on str.
Contains(s, sub) ==
    \E i \in 0..(Len(s) - Len(sub)) : \A j \in 1..Len(sub) : s[i + j] = sub[j]

\* `"401" in str(e)`
Has401(msg) == Contains(msg, <<"4", "0", "1">>)

----------------------------------------------------------------------------
\* The service's answers.

\* An element of a JSON array: a candidate {"id": id, "name": name}, or a str.
Cand(id, name) == [isdict |-> TRUE, id |-> id, name |-> name]
StrElem == [isdict |-> FALSE, id |-> PyNone, name |-> <<>>]

NoBody == [t |-> "none", data |-> <<>>, id |-> PyNone, items |-> <<>>]

\* {"data": [{"2": id}]}: a legacy search with one hit.
SearchHit(id) == [t |-> "dict", data |-> <<id>>, id |-> PyNone, items |-> <<>>]
\* {"totalcount": 0}: a legacy search without a hit; also any dict without id.
EmptyDict == [t |-> "dict", data |-> <<>>, id |-> PyNone, items |-> <<>>]
\* ["ERROR_RIGHT_MISSING", "..."]: the service's permission-denied payload.
RightMissing == [t |-> "list", data |-> <<>>, id |-> PyNone, items |-> <<StrElem, StrElem>>]
\* A JSON string whose text is the literal of glpi.py line 437.
RightMissingLiteral == [t |-> "str", data |-> <<>>, id |-> PyNone, items |-> <<>>]
\* A list of candidates of the modern dialect.
Items(seq) == [t |-> "list", data |-> <<>>, id |-> PyNone, items |-> seq]
\* {"id": id}: the answer to a create.
Created(id) == [t |-> "dict", data |-> <<>>, id |-> id, items |-> <<>>]
\* A body that is not JSON.
NotJson == [t |-> "notjson", data |-> <<>>, id |-> PyNone, items |-> <<>>]

\* An answer: an HTTP response, or a network-level failure (showsUrl tells
\* whether the text of its exception quotes the URL).  The fields json, ctype,
\* token, error and hint are read by the session operations only: whether the
\* body parses as JSON, whether the Content-Type is application/json, the
\* token field of the body, its error field and whether its hint names
\* client_id.
Http(status, body) ==
    [kind |-> "http", status |-> status, body |-> body, showsUrl |-> FALSE,
     json |-> body.t # "notjson", ctype |-> TRUE, token |-> NoneStr, error |-> "", hint |-> FALSE]
Transport(showsUrl) ==
    [kind |-> "transport", status |-> 0, body |-> NoBody, showsUrl |-> showsUrl,
     json |-> FALSE, ctype |-> FALSE, token |-> NoneStr, error |-> "", hint |-> FALSE]
\* An answer of a session endpoint.
Auth(status, json, ctype, token, error, hint) ==
    [kind |-> "http", status |-> status, body |-> IF json THEN EmptyDict ELSE NotJson, showsUrl |-> FALSE,
     json |-> json, ctype |-> ctype, token |-> token, error |-> error, hint |-> hint]
\* An answer of a session endpoint whose JSON body is an array, as the error
\* bodies of the legacy API are.
AuthList(status, ctype) == [Auth(status, TRUE, ctype, NoneStr, "", FALSE) EXCEPT !.body = RightMissing]

----------------------------------------------------------------------------
\* Exceptions, with the text str(e) gives.

DigitChars == <<"0", "1", "2", "3", "4", "5", "6", "7", "8", "9">>
StatusText(status) ==
    <<DigitChars[(status \div 100) + 1], DigitChars[((status \div 10) % 10) + 1], DigitChars[(status % 10) + 1]>>

\* The URL requests puts in its messages: a space is sent as %20.
RECURSIVE Quote(_)
Quote(q) ==
    IF q = <<>> THEN <<>>
    ELSE (IF Head(q) = " " THEN <<"%", "2", "0">> ELSE <<Head(q)>>) \o Quote(Tail(q))

NoExc == [kind |-> "none", msg |-> <<>>]
NotAuthenticated == [kind |-> "RuntimeError", msg |-> <<"GLPI Client Error: No session token available. Please authenticate first.">>]
Unauthorized == [kind |-> "Exception", msg |-> <<"4", "0", "1", " Unauthorized: Session expired or invalid.">>]
HTTPError(status, url) == [kind |-> "HTTPError", msg |-> StatusText(status) \o <<" Error: for url: ">> \o url]
TransportError(showsUrl, url) ==
    [kind |-> "ConnectionError", msg |-> <<"request failed">> \o (IF showsUrl THEN <<" with url: ">> \o url ELSE <<>>)]
JSONDecodeError == [kind |-> "JSONDecodeError", msg |-> <<"Expecting value">>]
AttributeError == [kind |-> "AttributeError", msg |-> <<"object has no attribute 'get'">>]
CreationFailed == [kind |-> "Exception", msg |-> <<"Computer creation failed: ">>]

----------------------------------------------------------------------------
\* Requests.

NoPayload == <<>>

\* A dispatcher request: the method, the endpoint, the item type and the free
\* text the URL carries, and the JSON payload.
Request(method, endpoint, itemtype, q, payload) ==
    [method |-> method, endpoint |-> endpoint, itemtype |-> itemtype, q |-> q, payload |-> payload]

UrlOf(dialect, req) ==
    <<IF dialect = "v2" THEN "/api.php/v2" ELSE "/apirest.php", req.endpoint, req.itemtype>> \o Quote(req.q)

\* One exchange on the wire: the request, the dialect of its base URL and
\* headers, the credential its headers carry, and the answer it got.
\* via is "dispatcher" for a request of _send_request, "session" for one of
\* the session operations.
Exchange(via, dialect, credential, req, resp) ==
    [via |-> via, dialect |-> dialect, credential |-> credential,
     method |-> req.method, endpoint |-> req.endpoint, itemtype |-> req.itemtype,
     q |-> req.q, payload |-> req.payload, resp |-> resp]

OnWire(c, req, resp) ==
    Exchange("dispatcher", IF c.api_version = "v2" THEN "v2" ELSE "v1", c.session_token, req, resp)

----------------------------------------------------------------------------
\* The dispatcher.

\* Raise after sending the request a second time.
RaiseResent(c, sent, e) == [c |-> c, sent |-> sent \o sent, ok |-> FALSE, body |-> NoBody, exc |-> e]

Raise(c, sent, e) == [c |-> c, sent |-> sent, ok |-> FALSE, body |-> NoBody, exc |-> e]
Return(c, sent, body) == [c |-> c, sent |-> sent, ok |-> TRUE, body |-> body, exc |-> NoExc]

\* On401 without the clearing of the session.
On401KeepsSession(c) == [c EXCEPT !.metrics.unauthorized = @ + 1]

\* The 401 branch of _send_request.
On401(c) ==
    [c EXCEPT !.session_token = NoneStr, !.username = NoneText,
              !.metrics.unauthorized = @ + 1]

\* OnError ending the session as a 401 does.
OnErrorClearsSession(c, status) ==
    [c EXCEPT !.session_token = NoneStr, !.metrics.errors = @ + 1]

\* OnError with a server class that ends at 599.
OnErrorBoundedClass(c, status) ==
    [c EXCEPT !.metrics.errors = @ + 1,
              !.metrics.errors_4xx = IF status >= 400 /\ status < 500 THEN @ + 1 ELSE @,
              !.metrics.errors_5xx = IF status >= 500 /\ status < 600 THEN @ + 1 ELSE @]

\* The >= 400 branch of _send_request.
OnError(c, status) ==
    [c EXCEPT !.metrics.errors = @ + 1,
              !.metrics.errors_4xx = IF status >= 400 /\ status < 500 THEN @ + 1 ELSE @,
              !.metrics.errors_5xx = IF status >= 500 THEN @ + 1 ELSE @]

\* OnRequestException counting the failure as an error.
OnRequestExceptionCounts(c) == [c EXCEPT !.metrics.errors = @ + 1]

\* The except clause of _send_request (lines 326-328): the exception is
\* logged and raised again, the adapter is left as it is.
OnRequestException(c) == c

\* HoldsCredential without the guard.
HoldsCredentialAlways(c) == TRUE

\* The not-authenticated guard of _send_request.
HoldsCredential(c) == ~FalsyStr(c.session_token)

\* _send_request(endpoint, method, payload, params) answered with resp.
SendRequest(c, req, resp) ==
    IF ~HoldsCredential(c) THEN Raise(c, <<>>, NotAuthenticated)
    ELSE
      LET w == OnWire(c, req, resp)
          url == UrlOf(w.dialect, req)
          c1 == [c EXCEPT !.metrics.requests = @ + 1]
      IN  IF resp.kind = "transport"
            THEN Raise(OnRequestException(c1), <<w>>, TransportError(resp.showsUrl, url))
          ELSE IF resp.status = 401
            THEN Raise(On401(c1), <<w>>, Unauthorized)
          ELSE IF resp.status >= 400
            THEN \* raise_for_status() raises for 400..599
                 IF resp.status < 600
                   THEN Raise(OnError(c1, resp.status), <<w>>, HTTPError(resp.status, url))
                   ELSE IF resp.body.t = "notjson"
                          THEN Raise(OnError(c1, resp.status), <<w>>, JSONDecodeError)
                          ELSE Return(OnError(c1, resp.status), <<w>>, resp.body)
          ELSE IF resp.body.t = "notjson"
            THEN Raise(c1, <<w>>, JSONDecodeError)
          ELSE Return(c1, <<w>>, resp.body)

----------------------------------------------------------------------------
\* The resolver.

\* The result of a resolver call: the adapter afterwards, the requests sent,
\* and either the exception raised or the value returned.
Raised(c, sent, e) == [c |-> c, sent |-> sent, raised |-> TRUE, exc |-> e, val |-> PyNone]
Returned(c, sent, v) == [c |-> c, sent |-> sent, raised |-> FALSE, exc |-> NoExc, val |-> v]

SearchV1(itemtype, query) == Request("GET", "/search/", itemtype, query, NoPayload)

\* Lines 437-446 and 578-587: what a legacy search answer resolves to.
\* `'data' in response` is false for a list that has no element 'data'.
LegacyAnswer(body) ==
    IF body = RightMissingLiteral THEN PERMISSION_DENIED
    ELSE IF body.t = "dict" /\ body.data # <<>> THEN body.data[1]
    ELSE NOT_FOUND

\* The except clause of getId (lines 447-451).
GetIdExcept(r) ==
    IF Has401(r.exc.msg) THEN Raised(r.c, r.sent, r.exc) ELSE Returned(r.c, r.sent, PyNone)

\* getId in the legacy dialect (lines 436-451).
GetIdV1(c, itemtype, query, resp) ==
    LET r == SendRequest(c, SearchV1(itemtype, query), resp)
    IN  IF r.ok THEN Returned(r.c, r.sent, LegacyAnswer(r.body)) ELSE GetIdExcept(r)

\* RestoreVersion without the assignment.
RestoreVersionSkipped(c, original_api_version) == c

\* The finally clauses of _getId_v1_fallback (line 596) and of
\* _link_component_v1 (line 622).
RestoreVersion(c, original_api_version) == [c EXCEPT !.api_version = original_api_version]

\* The inner except clause of _getId_v1_fallback (lines 589-593): TRUE when
\* the exception is raised again.
FallbackReraises(e) == Has401(e.msg)

\* _getId_v1_fallback (lines 562-600).  An exception the inner handler raises
\* again is caught by the outer handler, which returns 1404.
GetIdV1Fallback(c, itemtype, query, resp) ==
    LET original_api_version == c.api_version
        r == SendRequest([c EXCEPT !.api_version = "v1"], SearchV1(itemtype, query), resp)
        c2 == RestoreVersion(r.c, original_api_version)
    IN  IF r.ok THEN Returned(c2, r.sent, LegacyAnswer(r.body))
        ELSE IF FallbackReraises(r.exc)
          THEN \* raised again at line 592, caught at line 598
               Returned(c2, r.sent, NOT_FOUND)
        ELSE Returned(c2, r.sent, NOT_FOUND)

\* The mapping table of _getId_v2 (lines 516-528).
MappedTypes ==
    {"DeviceProcessor", "DeviceGraphicCard", "DeviceMemory", "DeviceHardDrive",
     "Manufacturer", "Location", "ComputerModel", "User", "OperatingSystem",
     "OperatingSystemVersion", "OperatingSystemEdition"}
DesignationTypes == {"DeviceProcessor", "DeviceGraphicCard", "DeviceMemory", "DeviceHardDrive"}

FilterV2(itemtype, query) ==
    Request("GET", IF itemtype \in DesignationTypes THEN "/Components/?filter=designation" ELSE "/?filter=name",
            itemtype, query, NoPayload)
ListV2(itemtype) ==
    Request("GET", IF itemtype \in DesignationTypes THEN "/Components/" ELSE "/", itemtype, <<>>, NoPayload)

\* The indices of the candidates an exact match, a substring match and a
\* non-dict element are found at.
ExactAt(items, qn) == {i \in 1..Len(items) : items[i].isdict /\ norm(items[i].name) = qn}
ContainsAt(items, qn) == {i \in 1..Len(items) : items[i].isdict /\ Contains(norm(items[i].name), qn)}
StrAt(items) == {i \in 1..Len(items) : ~items[i].isdict}
Min(S) == CHOOSE x \in S : \A y \in S : x <= y
\* The index the loop stops at: Len + 1 when it runs to the end.
FirstOf(S, items) == IF S = {} THEN Len(items) + 1 ELSE Min(S)

\* FilteredMatch without the loop for an exact match.
FilteredMatchFirst(body, qn) ==
    IF body.t # "list" \/ body.items = <<>> THEN [tag |-> "none", id |-> PyNone]
    ELSE IF StrAt(body.items) # {} THEN [tag |-> "error", id |-> PyNone]
    ELSE [tag |-> "id", id |-> body.items[1].id]

\* The filtered search of _getId_v2 (lines 537-542): "id" with the ID to
\* return, "error" when an element has no get, "none" to go on.
FilteredMatch(body, qn) ==
    IF body.t # "list" \/ body.items = <<>> THEN [tag |-> "none", id |-> PyNone]
    ELSE LET exact == FirstOf(ExactAt(body.items, qn), body.items)
             bad == FirstOf(StrAt(body.items), body.items)
         IN  IF bad < exact THEN [tag |-> "error", id |-> PyNone]
             ELSE IF exact <= Len(body.items) THEN [tag |-> "id", id |-> body.items[exact].id]
             ELSE [tag |-> "id", id |-> body.items[1].id]

\* CollectionMatch taking the first candidate that contains the query.
CollectionMatchFirstContaining(body, qn) ==
    IF body.t # "list" \/ body.items = <<>> THEN [tag |-> "none", id |-> PyNone]
    ELSE LET sub == FirstOf(ContainsAt(body.items, qn), body.items)
         IN  IF StrAt(body.items) # {} THEN [tag |-> "error", id |-> PyNone]
             ELSE IF sub <= Len(body.items) THEN [tag |-> "id", id |-> body.items[sub].id]
             ELSE [tag |-> "none", id |-> PyNone]

\* The scan of the unfiltered collection (lines 547-557).
CollectionMatch(body, qn) ==
    IF body.t # "list" \/ body.items = <<>> THEN [tag |-> "none", id |-> PyNone]
    ELSE LET exact == FirstOf(ExactAt(body.items, qn), body.items)
             sub == FirstOf(ContainsAt(body.items, qn), body.items)
             bad == FirstOf(StrAt(body.items), body.items)
         IN  IF bad < exact THEN [tag |-> "error", id |-> PyNone]
             ELSE IF exact <= Len(body.items) THEN [tag |-> "id", id |-> body.items[exact].id]
             ELSE IF sub <= Len(body.items) THEN [tag |-> "id", id |-> body.items[sub].id]
             ELSE [tag |-> "none", id |-> PyNone]

\* _getId_v2 (lines 512-560).  script[i] is the answer to the i-th request
\* that is sent.
GetIdV2(c, itemtype, query, script) ==
    LET qn == norm(query)
        r1 == SendRequest(c, FilterV2(itemtype, query), script[1])
        m1 == IF r1.ok THEN FilteredMatch(r1.body, qn) ELSE [tag |-> "error", id |-> PyNone]
        r2 == SendRequest(r1.c, ListV2(itemtype), script[Len(r1.sent) + 1])
        m2 == IF r2.ok THEN CollectionMatch(r2.body, qn) ELSE [tag |-> "error", id |-> PyNone]
        r3 == GetIdV1Fallback(r2.c, itemtype, query, script[Len(r1.sent) + Len(r2.sent) + 1])
    IN  IF itemtype \notin MappedTypes
          THEN GetIdV1Fallback(c, itemtype, query, script[1])
        ELSE IF m1.tag = "id" THEN Returned(r1.c, r1.sent, m1.id)
        ELSE IF m2.tag = "id" THEN Returned(r2.c, r1.sent \o r2.sent, m2.id)
        ELSE Returned(r3.c, r1.sent \o r2.sent \o r3.sent, r3.val)

\* getId (lines 429-451).
GetId(c, itemtype, query, script) ==
    IF FalsyText(query) THEN Returned(c, <<>>, PyNone)
    ELSE IF c.api_version = "v2"
      THEN LET r == GetIdV2(c, itemtype, query, script)
           IN  IF r.raised THEN GetIdExcept(r) ELSE r
      ELSE GetIdV1(c, itemtype, query, script[1])

----------------------------------------------------------------------------
\* The session operations.  They talk to the service directly, not through
\* _send_request, and leave the metrics alone.

SessionRequest(c, endpoint, credential, resp) ==
    Exchange("session", IF c.api_version = "v2" THEN "v2" ELSE "v1", credential,
             Request("GET", endpoint, "", <<>>, NoPayload), resp)

\* The outcome of init_session: the adapter afterwards, the requests sent,
\* success, and the kind of token_or_message.
AuthResult(c, sent, success, result) == [c |-> c, sent |-> sent, success |-> success, result |-> result]

\* _init_session_v1 (lines 74-100).  response.json().get raises when the
\* body is not JSON or not a JSON object.
InitSessionV1(c, resp) ==
    LET w == <<SessionRequest(c, "/initSession", NoneStr, resp)>>
    IN  IF resp.kind = "transport" THEN AuthResult(c, w, FALSE, "exception")
        ELSE IF ~resp.json \/ resp.body.t # "dict" THEN AuthResult(c, w, FALSE, "exception")
        ELSE IF resp.status = 200
          THEN AuthResult([c EXCEPT !.session_token = resp.token], w, TRUE, "token")
        ELSE AuthResult(c, w, FALSE, "message")

\* _init_session_v2 without the retry.
InitSessionV2NoRetry(c, w1, resp) == AuthResult(c, w1, FALSE, "message")

\* The Basic-auth retry of _init_session_v2 (lines 165-191).  A 200 whose
\* JSON body is not an object makes .get raise, which line 189 catches.
InitSessionV2Retry(c, w1, resp) ==
    LET w == w1 \o <<SessionRequest(c, "/token (basic)", NoneStr, resp)>>
    IN  IF resp.kind = "http" /\ resp.status = 200 /\ (resp.json => resp.body.t = "dict")
          THEN \* a body that is not JSON is read as {"message": text}: no access_token
               AuthResult([c EXCEPT !.session_token = IF resp.json THEN resp.token ELSE NoneStr],
                          w, TRUE, "token")
          ELSE AuthResult(c, w, FALSE, "client_credentials")

\* _init_session_v2 (lines 102-196); script[2] answers the retry, if sent.
InitSessionV2(c, client_id, script) ==
    LET resp == script[1]
        w == <<SessionRequest(c, "/token", NoneStr, resp)>>
    IN  IF resp.kind = "transport" THEN AuthResult(c, w, FALSE, "exception")
        ELSE IF ~resp.json \/ ~resp.ctype
          THEN AuthResult(c, w, FALSE, IF resp.status = 404 THEN "v2_not_found" ELSE "unexpected")
        ELSE IF resp.body.t # "dict"
          THEN \* response_data.get raises AttributeError, caught at line 195
               AuthResult(c, w, FALSE, "exception")
        ELSE IF resp.status = 200
          THEN AuthResult([c EXCEPT !.session_token = resp.token], w, TRUE, "token")
        ELSE IF resp.status = 404 THEN AuthResult(c, w, FALSE, "v2_not_found")
        ELSE IF resp.status = 400 /\ resp.error = "invalid_request" /\ (resp.hint \/ ~client_id)
          THEN InitSessionV2Retry(c, w, script[2])
        ELSE AuthResult(c, w, FALSE, "message")

\* init_session (lines 59-72).
InitSession(c, client_id, user, script) ==
    LET c1 == [c EXCEPT !.username = user]
        r == IF c1.api_version = "v2" THEN InitSessionV2(c1, client_id, script)
             ELSE InitSessionV1(c1, script[1])
    IN  r

\* verify_session, were it to accept every answer that is an HTTP response.
VerifySessionAnyAnswer(c, token, resp) ==
    LET w == <<SessionRequest(c, IF c.api_version = "v2" THEN "/Administration/User/Me" ELSE "/getFullSession",
                              token, resp)>>
    IN  IF resp.kind = "http"
          THEN AuthResult([c EXCEPT !.session_token = token], w, TRUE, "true")
          ELSE AuthResult(c, w, FALSE, "false")

\* verify_session (lines 198-240).
VerifySession(c, token, resp) ==
    LET w == <<SessionRequest(c, IF c.api_version = "v2" THEN "/Administration/User/Me" ELSE "/getFullSession",
                              token, resp)>>
    IN  IF resp.kind = "http" /\ resp.status = 200
          THEN AuthResult([c EXCEPT !.session_token = token], w, TRUE, "true")
          ELSE AuthResult(c, w, FALSE, "false")

\* kill_session (lines 242-269).
KillSession(c, resp) ==
    IF FalsyStr(c.session_token) THEN AuthResult(c, <<>>, FALSE, "false")
    ELSE IF c.api_version = "v1"
      THEN LET w == <<SessionRequest(c, "/killSession", c.session_token, resp)>>
           IN  IF resp.kind = "http" /\ resp.status = 200
                 THEN AuthResult([c EXCEPT !.session_token = NoneStr], w, TRUE, "true")
                 ELSE AuthResult(c, w, FALSE, "false")
    ELSE AuthResult([c EXCEPT !.session_token = NoneStr], <<>>, TRUE, "true")

----------------------------------------------------------------------------
\* The composite workflow: add and addToItemtype.

\* data.get(k)
DataGet(data, k) == IF k \in DOMAIN data THEN data[k] ELSE NoneText

\* `v.strip() != ""` is false
Blank(t) == \A i \in 1..Len(t) : t[i] = " "

\* `x and x not in [1403, 1404]`
Valid(id) == ~FalsyInt(id) /\ id \notin Sentinels

\* The reference fields add resolves, in the order of the dict display
\* (lines 461-464 and 473-479); field "self.username" reads the adapter.
RefFieldsV2 ==
    <<[key |-> "location", itemtype |-> "Location", field |-> "location"],
      [key |-> "user", itemtype |-> "User", field |-> "self.username"],
      [key |-> "model", itemtype |-> "ComputerModel", field |-> "model"],
      [key |-> "manufacturer", itemtype |-> "Manufacturer", field |-> "manufacturer"]>>
RefFieldsV1 ==
    <<[key |-> "locations_id", itemtype |-> "Location", field |-> "location"],
      [key |-> "users_id_tech", itemtype |-> "User", field |-> "self.username"],
      [key |-> "computermodels_id", itemtype |-> "ComputerModel", field |-> "model"],
      [key |-> "manufacturers_id", itemtype |-> "Manufacturer", field |-> "manufacturer"],
      [key |-> "computertypes_id", itemtype |-> "ComputerType", field |-> "computer_type"]>>
RefFields(version) == IF version = "v2" THEN RefFieldsV2 ELSE RefFieldsV1
RefKeys == {"location", "user", "model", "manufacturer",
            "locations_id", "users_id_tech", "computermodels_id", "manufacturers_id", "computertypes_id"}

\* KeepsField without the test for the sentinels.
KeepsFieldPositive(k, v) ==
    IF k \in {"location", "user", "model", "manufacturer"}
      THEN v > 0
      ELSE v # NoneText /\ ~Blank(v)

\* KeepsField dropping every reference field.
KeepsFieldNoRefs(k, v) ==
    k \notin {"location", "user", "model", "manufacturer"} /\ v # NoneText /\ ~Blank(v)

\* The test of _sanitize_v2_computer_payload on one field (lines 502-509).
KeepsField(k, v) ==
    IF k \in {"location", "user", "model", "manufacturer"}
      THEN v > 0 /\ v \notin {1403, 1404}
      ELSE v # NoneText /\ ~Blank(v)

\* _sanitize_v2_computer_payload (lines 499-510).
Sanitize(payload) ==
    [k \in {x \in DOMAIN payload : KeepsField(x, payload[x])} |-> payload[k]]

\* The payload of the root create in the modern dialect (lines 458-467).
PayloadV2(data, refs) ==
    Sanitize([name |-> DataGet(data, "name"), serial |-> DataGet(data, "serial"),
              location |-> refs[1], user |-> refs[2], model |-> refs[3],
              manufacturer |-> refs[4], comment |-> DataGet(data, "comment")])

\* int(battery_health_str) succeeds on decimal digits.
IsNumber(t) == t # <<>> /\ \A i \in 1..Len(t) : \E d \in 1..10 : t[i] = DigitChars[d]

\* The payload of the root create in the legacy dialect (lines 470-488):
\* nothing is dropped.
PayloadV1(data, refs) ==
    LET input == [name |-> DataGet(data, "name"), serial |-> DataGet(data, "serial"),
                  locations_id |-> refs[1], users_id_tech |-> refs[2], groups_id_tech |-> 1,
                  computermodels_id |-> refs[3], comment |-> DataGet(data, "comment"),
                  manufacturers_id |-> refs[4], computertypes_id |-> refs[5]]
        battery == DataGet(data, "battery_health")
    IN  IF ~FalsyText(battery) /\ IsNumber(battery)
          THEN input @@ [akkugesundheitinfield |-> battery]
          ELSE input

\* CreationSucceeded without the test of the identifier.
CreationSucceededAlways(computer_id) == TRUE

\* Line 491 negated: the create answer carries an identifier.
CreationSucceeded(computer_id) == ~FalsyInt(computer_id)

\* Lines 494-495.
ItemsToAdd == {"cpu", "processor", "gpu", "ram", "hdd", "os"}
AnyItemsToAdd(data) == \E item \in ItemsToAdd : item \in DOMAIN data

\* Line 626, and the item type of each component (lines 637-644, 677-688).
HardwareComponents == <<"cpu", "processor", "gpu", "ram", "hdd">>
ComponentType(component) ==
    CASE component \in {"cpu", "processor"} -> "DeviceProcessor"
      [] component = "gpu" -> "DeviceGraphicCard"
      [] component = "ram" -> "DeviceMemory"
      [] component = "hdd" -> "DeviceHardDrive"

\* The key of a component in the link payload (lines 648-655, 677-688).
LinkKey(version, component) ==
    IF version = "v2"
      THEN CASE component \in {"cpu", "processor"} -> "processors"
             [] component = "gpu" -> "graphicCards"
             [] component = "ram" -> "memories"
             [] component = "hdd" -> "hardDrives"
      ELSE CASE component \in {"cpu", "processor"} -> "deviceprocessors_id"
             [] component = "gpu" -> "devicegraphiccards_id"
             [] component = "ram" -> "devicememories_id"
             [] component = "hdd" -> "deviceharddrives_id"

\* The request that links a component (lines 658 and 675-692).
LinkRequest(version, device_id, component, component_id) ==
    IF version = "v2"
      THEN Request("PATCH", "/Assets/Computer/{device_id}", "", <<>>,
                   (LinkKey("v2", component) :> component_id))
      ELSE Request("POST", "/Item_", ComponentType(component), <<>>,
                   [items_id |-> device_id] @@ (LinkKey("v1", component) :> component_id))

\* _link_component_v1 without the switch to the legacy dialect.
LinkComponentV1Unswitched(c, device_id, component, component_id, resp) ==
    SendRequest(c, LinkRequest("v1", device_id, component, component_id), resp)

\* _link_component_v1 (lines 602-622): the exception is swallowed, the
\* selector restored.
LinkComponentV1(c, device_id, component, component_id, resp) ==
    LET original_api_version == c.api_version
        r == SendRequest([c EXCEPT !.api_version = "v1"],
                         LinkRequest("v1", device_id, component, component_id), resp)
    IN  [r EXCEPT !.c = RestoreVersion(r.c, original_api_version)]

\* The operating system fields (lines 697-699).
OsFields ==
    <<[itemtype |-> "OperatingSystem", field |-> "os"],
      [itemtype |-> "OperatingSystemVersion", field |-> "os_version"],
      [itemtype |-> "OperatingSystemEdition", field |-> "os_edition"]>>

\* OsPayload without the tests of the version and of the edition.
OsPayloadUntested(version, device_id, os_ids) ==
    IF version = "v2"
      THEN [operatingSystem |-> os_ids[1], operatingSystemVersion |-> os_ids[2],
            operatingSystemEdition |-> os_ids[3]]
      ELSE [items_id |-> device_id, operatingsystems_id |-> os_ids[1],
            operatingsystemversions_id |-> os_ids[2], operatingsystemeditions_id |-> os_ids[3]]

\* The payload of the operating system link (lines 703-707, 714-722).
OsPayload(version, device_id, os_ids) ==
    LET base == IF version = "v2" THEN [operatingSystem |-> os_ids[1]]
                ELSE [items_id |-> device_id, operatingsystems_id |-> os_ids[1]]
        ver == IF Valid(os_ids[2])
                 THEN ((IF version = "v2" THEN "operatingSystemVersion" ELSE "operatingsystemversions_id") :> os_ids[2])
                 ELSE <<>>
        ed == IF Valid(os_ids[3])
                 THEN ((IF version = "v2" THEN "operatingSystemEdition" ELSE "operatingsystemeditions_id") :> os_ids[3])
                 ELSE <<>>
    IN  base @@ ver @@ ed

OsRequest(version, device_id, os_ids) ==
    IF version = "v2"
      THEN Request("PATCH", "/Assets/Computer/{device_id}", "", <<>>, OsPayload("v2", device_id, os_ids))
      ELSE Request("POST", "/Item_", "OperatingSystem", <<>>, OsPayload("v1", device_id, os_ids))

----------------------------------------------------------------------------
\* The inputs and the answers the model draws from.

Tokens == {"tokA", "tokB"}
Users == {<<"u">>}

\* Display names: one name, a case and whitespace variant of it, a longer
\* name that contains it, and a text that holds the digits 401.
NameAB == <<"a", " ", "b">>
VariantAB == <<"A", " ", " ", "B">>
LongerAB == <<"a", " ", "b", " ", "b">>
Text401 == <<"4", "0", "1">>

Queries == {NoneText, <<>>, VariantAB, Text401}
ItemTypes == {"Manufacturer", "ComputerType"}

\* The answers of the service to a dispatcher request.
Responses ==
    {Transport(TRUE),
     Http(401, EmptyDict), Http(403, RightMissing), Http(500, NotJson),
     Http(200, SearchHit(7)), Http(200, EmptyDict), Http(200, RightMissing),
     Http(200, RightMissingLiteral),
     Http(200, Items(<<>>)), Http(200, Items(<<Cand(7, LongerAB), Cand(9, NameAB)>>)),
     Http(200, Created(42))}

\* The same, and an answer whose status is beyond the 5xx class.
DispatcherResponses == Responses \cup {Http(600, EmptyDict)}

\* The requests the callers of _send_request make.
DispatcherRequests ==
    {SearchV1("Computer", VariantAB),
     Request("POST", "/Assets/Computer", "", <<>>, [name |-> NameAB]),
     Request("PATCH", "/Assets/Computer/", "", <<>>, [processors |-> 7])}

AuthResponses ==
    {Transport(FALSE),
     Auth(200, TRUE, TRUE, "tokA", "", FALSE), Auth(200, TRUE, TRUE, "tokB", "", FALSE),
     Auth(200, TRUE, TRUE, NoneStr, "", FALSE), Auth(200, FALSE, FALSE, NoneStr, "", FALSE),
     Auth(401, TRUE, TRUE, NoneStr, "invalid_grant", FALSE),
     Auth(400, TRUE, TRUE, NoneStr, "invalid_request", TRUE),
     Auth(400, TRUE, TRUE, NoneStr, "invalid_request", FALSE),
     Auth(404, TRUE, TRUE, NoneStr, "", FALSE), Auth(404, FALSE, FALSE, NoneStr, "", FALSE),
     Auth(404, TRUE, FALSE, NoneStr, "", FALSE),
     AuthList(404, TRUE), AuthList(200, TRUE)}

\* An answer that stands in a script at a position no request reaches.
Unused == Transport(FALSE)

\* The answers to draw for position i of a script, given how many requests
\* the operation sends when the positions from i on are not drawn yet.
Draw(i, nsent, answers) == IF nsent >= i THEN answers ELSE {Unused}

----------------------------------------------------------------------------
\* The state machine.

ZeroMetrics == [requests |-> 0, errors |-> 0, errors_4xx |-> 0, errors_5xx |-> 0, unauthorized |-> 0]

\* The adapter's fields, as one value.
Client ==
    [session_token |-> session_token, username |-> username,
     api_version |-> api_version, metrics |-> metrics]

\* The adapter's fields and the history flag, as recorded when an operation is called.
Snapshot ==
    [session_token |-> session_token, username |-> username,
     api_version |-> api_version, metrics |-> metrics, expired |-> expired]

\* `add` when add is not running.
NoAdd ==
    [pc |-> "idle", data |-> <<>>, i |-> 0, refs |-> <<>>, computer_id |-> PyNone,
     component_id |-> PyNone, os_ids |-> <<>>, resolved |-> <<>>, trace |-> <<>>,
     after_create |-> 0, raised |-> FALSE, exc |-> NoExc, val |-> PyNone]

\* A thread that has not called the dispatcher: its position and the locals
\* of _send_request (the credential and the dialect of its headers, the
\* counter it is adding to and the value it read, the status of the answer),
\* how far its call of getId has come, and the local original_api_version of
\* _getId_v1_fallback.
IdleThread ==
    [pc |-> "idle", cred |-> "", dialect |-> "", counter |-> "", tmp |-> 0, status |-> 0,
     passed |-> FALSE, outcome |-> "", stage |-> "", original |-> ""]
Threads == 1..NumThreads
NoThreads == [t \in Threads |-> IdleThread]

\* What a call of getId gave its caller.
ResultOf(r) == [raised |-> r.raised, exc |-> r.exc, val |-> r.val]
NoResult == [raised |-> FALSE, exc |-> NoExc, val |-> PyNone]

\* `last` when nothing has been called yet.
Nothing ==
    [op |-> "none", itemtype |-> "", query |-> <<>>, raised |-> FALSE, exc |-> NoExc,
     val |-> PyNone, success |-> FALSE, result |-> "", first |-> NoResult,
     payload |-> <<>>, sanitized |-> <<>>]

\* A dispatcher request among the exchanges was answered with 401.
Got401(sent) ==
    \E i \in 1..Len(sent) :
        sent[i].via = "dispatcher" /\ sent[i].resp.kind = "http" /\ sent[i].resp.status = 401

\* __init__ (lines 13-30).
Init ==
    /\ config \in [api_version : {"v1", "v2"}, client_id : BOOLEAN]
    /\ session_token = NoneStr
    /\ username = NoneText
    /\ api_version = config.api_version
    /\ metrics = ZeroMetrics
    /\ expired = FALSE
    /\ pre = Snapshot
    /\ last = Nothing
    /\ wire = <<>>
    /\ add = NoAdd
    /\ threads = NoThreads

\* The adapter's fields after an operation, and the history of the operation.
Finish(c, sent, record) ==
    /\ session_token' = c.session_token
    /\ username' = c.username
    /\ api_version' = c.api_version
    /\ metrics' = c.metrics
    /\ pre' = Snapshot
    /\ wire' = sent
    /\ last' = record
    /\ expired' = IF Got401(sent) THEN TRUE
                  ELSE IF record.op \in {"init_session", "verify_session"} /\ record.success THEN FALSE
                  ELSE expired
    /\ UNCHANGED <<config, add, threads>>

Budget == metrics.requests < MaxRequests
ResolveBudget == metrics.requests < MaxResolveRequests

\* A caller (search, search_computer, add, addToItemtype) calls _send_request.
SendRequestCall ==
    /\ Budget
    /\ \E req \in DispatcherRequests, resp \in DispatcherResponses :
         LET r == SendRequest(Client, req, resp)
         IN  Finish(r.c, r.sent,
                    [Nothing EXCEPT !.op = "_send_request", !.raised = ~r.ok, !.exc = r.exc])

\* The scripts of three answers; Unused stands at the positions of requests
\* that are never sent.
Scripts(answers) == (answers \cup {Unused}) \X (answers \cup {Unused}) \X (answers \cup {Unused})

\* The outcomes of an operation g, a function of the script, the service
\* answering each request the operation sends with one of `answers`.
OutcomesOf(g, answers) ==
    UNION {UNION {{g[<<a1, a2, a3>>] :
                     a3 \in Draw(3, Len(g[<<a1, a2, Unused>>].sent), answers)} :
                  a2 \in Draw(2, Len(g[<<a1, Unused, Unused>>].sent), answers)} :
           a1 \in Draw(1, Len(g[<<Unused, Unused, Unused>>].sent), answers)}

\* Every outcome of getId(itemtype, query) on adapter c.
GetIdOutcomes(c, itemtype, query, answers) ==
    OutcomesOf([script \in Scripts(answers) |-> GetId(c, itemtype, query, script)], answers)

GetIdCall ==
    /\ ResolveBudget
    /\ \E itemtype \in ItemTypes, query \in Queries :
         \E r \in GetIdOutcomes(Client, itemtype, query, Responses) :
           Finish(r.c, r.sent,
                  [Nothing EXCEPT !.op = "getId", !.itemtype = itemtype, !.query = query,
                                  !.raised = r.raised, !.exc = r.exc, !.val = r.val])

InitSessionCall ==
    /\ Budget
    /\ \E user \in Users, a1 \in AuthResponses :
         \E a2 \in Draw(2, Len(InitSession(Client, config.client_id, user, <<a1, Unused>>).sent), AuthResponses) :
           LET r == InitSession(Client, config.client_id, user, <<a1, a2>>)
           IN  Finish(r.c, r.sent,
                      [Nothing EXCEPT !.op = "init_session", !.success = r.success, !.result = r.result])

VerifySessionCall ==
    /\ Budget
    /\ \E token \in Tokens, resp \in AuthResponses :
         LET r == VerifySession(Client, token, resp)
         IN  Finish(r.c, r.sent,
                    [Nothing EXCEPT !.op = "verify_session", !.success = r.success, !.result = r.result])

KillSessionCall ==
    /\ Budget
    /\ \E resp \in AuthResponses :
         LET r == KillSession(Client, resp)
         IN  Finish(r.c, r.sent,
                    [Nothing EXCEPT !.op = "kill_session", !.success = r.success, !.result = r.result])

\* The session and the dispatcher.
Next ==
    \/ InitSessionCall
    \/ VerifySessionCall
    \/ KillSessionCall
    \/ SendRequestCall

Spec == Init /\ [][Next]_vars

\* The resolver, on an adapter that was constructed and either not logged in
\* or logged in by init_session.
InitResolve ==
    /\ config \in [api_version : {"v1", "v2"}, client_id : {TRUE}]
    /\ session_token \in {NoneStr, "tokA"}
    /\ username = IF session_token = NoneStr THEN NoneText ELSE <<"u">>
    /\ api_version = config.api_version
    /\ metrics = ZeroMetrics
    /\ expired = FALSE
    /\ pre = Snapshot
    /\ last = Nothing
    /\ wire = <<>>
    /\ add = NoAdd
    /\ threads = NoThreads

\* addToItemtype calls _link_component_v1.
LinkComponentV1Call ==
    /\ ResolveBudget
    /\ \E component \in {"processor", "gpu"}, resp \in Responses :
         LET r == LinkComponentV1(Client, 42, component, 7, resp)
         IN  Finish(r.c, r.sent, [Nothing EXCEPT !.op = "_link_component_v1"])

NextResolve ==
    \/ GetIdCall
    \/ LinkComponentV1Call

SpecResolve == InitResolve /\ [][NextResolve]_vars

----------------------------------------------------------------------------
\* add("Computer", data), one step for each call it makes to getId or to
\* _send_request.  add.trace records the calls add and addToItemtype make to
\* _send_request themselves: the root create and the links.

\* The inputs of add.
DataRefs == [name |-> NameAB, serial |-> NameAB, location |-> VariantAB]
DataHardware == [name |-> NameAB, serial |-> NameAB, processor |-> NameAB, gpu |-> VariantAB, ram |-> LongerAB]
DataOs == [name |-> NameAB, serial |-> NameAB, os |-> NameAB, os_version |-> VariantAB]
DataOsFull == [name |-> NameAB, serial |-> NameAB, os |-> NameAB, os_version |-> VariantAB, os_edition |-> LongerAB]
\* The marker of a field that was not determined (system_info.py).
UnknownText == <<"U", "n", "k", "n", "o", "w", "n">>
DataUnknown == [name |-> NameAB, serial |-> UnknownText, location |-> UnknownText]
\* The form with its name left empty.
DataNoName == [name |-> <<>>, serial |-> NameAB]
AddInputs == {DataRefs, DataHardware, DataOs, DataOsFull, DataUnknown, DataNoName}

\* The answers of the service during add: to the searches of getId, and to
\* the root create and the links.
ResolveResponses ==
    {Transport(TRUE), Http(401, EmptyDict),
     Http(200, SearchHit(7)), Http(200, EmptyDict), Http(200, Items(<<Cand(7, NameAB)>>))}
AddResponses ==
    {Transport(TRUE), Http(401, EmptyDict), Http(500, NotJson),
     Http(200, EmptyDict), Http(200, Created(42))}
\* The answers to the root create: also {"id": 0} and a JSON array.
CreateResponses == AddResponses \cup {Http(200, Created(0)), Http(200, Items(<<>>))}

\* A call of _send_request by add or addToItemtype: whether the request went
\* on the wire, in which dialect, and whether the call returned.
Event(kind, component, c, r) ==
    [kind |-> kind, component |-> component,
     sent |-> r.sent # <<>>,
     dialect |-> IF r.sent # <<>> THEN r.sent[1].dialect ELSE "",
     payload |-> IF r.sent # <<>> THEN r.sent[1].payload ELSE <<>>,
     ok |-> r.ok,
     body |-> IF r.ok THEN r.body.t ELSE "",
     id |-> IF r.ok /\ r.body.t = "dict" THEN r.body.id ELSE PyNone]

SetClient(c) ==
    /\ session_token' = c.session_token
    /\ username' = c.username
    /\ api_version' = c.api_version
    /\ metrics' = c.metrics

History == <<config, expired, last, wire>>

AddRaise(a, e) == [a EXCEPT !.pc = "done", !.raised = TRUE, !.exc = e]
AddReturn(a, v) == [a EXCEPT !.pc = "done", !.val = v]

\* After the component loop (line 695): the operating system, if supplied.
AfterComponents(a) ==
    IF FalsyText(DataGet(a.data, "os")) THEN AddReturn(a, a.computer_id)
    ELSE [a EXCEPT !.pc = "os", !.i = 1]

\* The next iteration of the loop of line 627.
NextComponent(a) ==
    IF a.i = Len(HardwareComponents) THEN AfterComponents(a)
    ELSE [a EXCEPT !.pc = "components", !.i = @ + 1]

\* add is called (lines 453-456).
AddCall ==
    /\ add.pc = "idle"
    /\ \E data \in AddInputs : add' = [NoAdd EXCEPT !.pc = "refs", !.data = data, !.i = 1]
    /\ pre' = Snapshot
    /\ UNCHANGED <<session_token, username, api_version, metrics, History, threads>>

\* One getId of the payload display (lines 461-464, 473-479).
AddResolveRef ==
    /\ add.pc = "refs"
    /\ LET fields == RefFields(api_version)
           f == fields[add.i]
           query == IF f.field = "self.username" THEN username ELSE DataGet(add.data, f.field)
       IN  \E r \in GetIdOutcomes(Client, f.itemtype, query, ResolveResponses) :
             /\ SetClient(r.c)
             /\ add' = IF r.raised THEN AddRaise(add, r.exc)
                       ELSE [add EXCEPT !.refs = Append(@, r.val),
                                        !.i = @ + 1,
                                        !.pc = IF add.i = Len(fields) THEN "create" ELSE "refs"]
    /\ UNCHANGED <<pre, History, threads>>

\* The root create and its check (lines 467-468, 488-497).
AddCreate ==
    /\ add.pc = "create"
    /\ \E resp \in CreateResponses :
         LET req == IF api_version = "v2"
                      THEN Request("POST", "/Assets/Computer", "", <<>>, PayloadV2(add.data, add.refs))
                      ELSE Request("POST", "/Computer/", "", <<>>, PayloadV1(add.data, add.refs))
             r == SendRequest(Client, req, resp)
             a == [add EXCEPT !.trace = Append(@, Event("create", "", Client, r))]
             computer_id == r.body.id
         IN  /\ SetClient(r.c)
             /\ add' = IF ~r.ok THEN AddRaise(a, r.exc)
                       ELSE IF r.body.t # "dict" THEN AddRaise(a, AttributeError)
                       ELSE IF ~CreationSucceeded(computer_id) THEN AddRaise(a, CreationFailed)
                       ELSE IF AnyItemsToAdd(add.data)
                              THEN [a EXCEPT !.computer_id = computer_id, !.pc = "components", !.i = 1]
                       ELSE AddReturn([a EXCEPT !.computer_id = computer_id], computer_id)
    /\ UNCHANGED <<pre, History, threads>>

\* One iteration of the component loop up to its getId (lines 627-646, 675-688).
AddComponent ==
    /\ add.pc = "components"
    /\ LET component == HardwareComponents[add.i]
           value == DataGet(add.data, component)
       IN  IF FalsyText(value)
             THEN /\ add' = NextComponent(add)
                  /\ UNCHANGED <<session_token, username, api_version, metrics>>
             ELSE \E r \in GetIdOutcomes(Client, ComponentType(component), value, ResolveResponses) :
                    LET a == [add EXCEPT !.resolved = Append(@, [component |-> component, id |-> r.val]),
                                         !.after_create = @ + Len(r.sent),
                                         !.component_id = r.val]
                    IN  /\ SetClient(r.c)
                        /\ add' = IF r.raised THEN AddRaise(a, r.exc)
                                  ELSE IF api_version = "v2" /\ ~Valid(r.val) THEN NextComponent(a)
                                  ELSE [a EXCEPT !.pc = "link"]
    /\ UNCHANGED <<pre, History, threads>>

\* The link request of one component (lines 656-660, 690-692).
AddLink ==
    /\ add.pc = "link"
    /\ \E resp \in AddResponses :
         LET component == HardwareComponents[add.i]
             r == SendRequest(Client, LinkRequest(api_version, add.computer_id, component, add.component_id), resp)
             a == [add EXCEPT !.trace = Append(@, Event("link", component, Client, r)),
                              !.after_create = @ + Len(r.sent)]
         IN  /\ SetClient(r.c)
             /\ add' = IF r.ok THEN NextComponent(a)
                       ELSE IF api_version = "v2" THEN [a EXCEPT !.pc = "link_v1"]
                       ELSE AddRaise(a, r.exc)
    /\ UNCHANGED <<pre, History, threads>>

\* The legacy link after a failed PATCH (lines 660-672).
AddLinkV1 ==
    /\ add.pc = "link_v1"
    /\ \E resp \in AddResponses :
         LET component == HardwareComponents[add.i]
             r == LinkComponentV1(Client, add.computer_id, component, add.component_id, resp)
             a == [add EXCEPT !.trace = Append(@, Event("link_v1", component, Client, r)),
                              !.after_create = @ + Len(r.sent)]
         IN  /\ SetClient(r.c)
             /\ add' = NextComponent(a)
    /\ UNCHANGED <<pre, History, threads>>

\* One getId of the operating system block (lines 697-701).
AddOsResolve ==
    /\ add.pc = "os"
    /\ LET f == OsFields[add.i]
       IN  \E r \in GetIdOutcomes(Client, f.itemtype, DataGet(add.data, f.field), ResolveResponses) :
             LET a == [add EXCEPT !.os_ids = Append(@, r.val), !.after_create = @ + Len(r.sent)]
             IN  /\ SetClient(r.c)
                 /\ add' = IF r.raised THEN AddRaise(a, r.exc)
                           ELSE IF add.i < Len(OsFields) THEN [a EXCEPT !.i = @ + 1]
                           ELSE IF Valid(a.os_ids[1]) THEN [a EXCEPT !.pc = "os_link"]
                           ELSE AddReturn(a, a.computer_id)
    /\ UNCHANGED <<pre, History, threads>>

\* The link of the operating system (lines 702-725).
AddOsLink ==
    /\ add.pc = "os_link"
    /\ \E resp \in AddResponses :
         LET r == SendRequest(Client, OsRequest(api_version, add.computer_id, add.os_ids), resp)
             a == [add EXCEPT !.trace = Append(@, Event("os_link", "os", Client, r)),
                              !.after_create = @ + Len(r.sent)]
         IN  /\ SetClient(r.c)
             /\ add' = IF r.ok \/ api_version = "v2" THEN AddReturn(a, a.computer_id)
                       ELSE AddRaise(a, r.exc)
    /\ UNCHANGED <<pre, History, threads>>

\* The workflow, on an adapter that was constructed and either not logged in
\* or logged in by init_session.
InitAdd == InitResolve

NextAdd ==
    \/ AddCall
    \/ AddResolveRef
    \/ AddCreate
    \/ AddComponent
    \/ AddLink
    \/ AddLinkV1
    \/ AddOsResolve
    \/ AddOsLink

SpecAdd == InitAdd /\ [][NextAdd]_vars

----------------------------------------------------------------------------
\* The claims about the session and the dispatcher (specification Spec).

\* C1: when a dispatcher call receives 401, the credential is cleared and the
\* unauthorized counter grows by one; from then on, until init_session or
\* verify_session succeeds, no credential is held and every dispatcher call
\* fails with the not-authenticated error without a request on the wire.
C1_ExpiryInvalidatesSession ==
    /\ (last.op = "_send_request" /\ Got401(wire)) =>
          /\ session_token = NoneStr
          /\ metrics.unauthorized = pre.metrics.unauthorized + 1
    /\ expired => session_token = NoneStr
    /\ (last.op = "_send_request" /\ pre.expired) =>
          /\ last.raised
          /\ last.exc = NotAuthenticated
          /\ wire = <<>>

\* A dispatcher call made after a 401 and before a new authentication.
C1_Witness ==
    /\ last.op = "_send_request"
    /\ pre.expired
    /\ pre.metrics.unauthorized = 1
    /\ last.exc = NotAuthenticated

\* C2: without a credential, _send_request fails with the not-authenticated
\* error and nothing is sent, whatever the endpoint, the method and the
\* dialect.
C2_FailsFastWithoutSession ==
    (last.op = "_send_request" /\ pre.session_token \in {NoneStr, ""}) =>
        /\ last.raised
        /\ last.exc = NotAuthenticated
        /\ wire = <<>>
        /\ metrics = pre.metrics

\* A dispatcher call without a credential, in the modern dialect.
C2_Witness ==
    /\ last.op = "_send_request"
    /\ pre.session_token = NoneStr
    /\ pre.api_version = "v2"
    /\ last.raised

----------------------------------------------------------------------------
\* The claims about the resolver (specification SpecResolve).

\* The exchange that decided the result of the last getId: the last one.
Deciding == wire[Len(wire)]

\* C3: when a dispatcher call made while resolving an ID receives 401, getId
\* raises an authorization failure; it does not return None or 1404.
C3_Claim ==
    (last.op = "getId" /\ Got401(wire)) =>
        /\ last.raised
        /\ last.exc = Unauthorized

\* C10: when the service answers the legacy search of getId with its
\* permission-denied payload, getId returns 1403.
C10_Claim ==
    (/\ last.op = "getId"
     /\ wire # <<>>
     /\ Deciding.endpoint = "/search/"
     /\ Deciding.resp.kind = "http"
     /\ Deciding.resp.body = RightMissing) =>
        /\ ~last.raised
        /\ last.val = PERMISSION_DENIED

\* C4: whatever the outcome of the request made inside _getId_v1_fallback or
\* _link_component_v1, the protocol selector has its pre-call value when the
\* operation is over.
C4_SelectorRestored ==
    (last.op \in {"getId", "_link_component_v1"}) =>
        /\ api_version = pre.api_version
        /\ api_version = config.api_version

\* A getId of the modern dialect whose legacy fallback request got a 401.
C4_Witness ==
    /\ last.op = "getId"
    /\ pre.api_version = "v2"
    /\ wire # <<>>
    /\ Deciding.dialect = "v1"
    /\ Deciding.resp.status = 401

----------------------------------------------------------------------------
\* The claims about the workflow (specification SpecAdd).

TraceIndex == 1..Len(add.trace)
\* The root create requests and the link requests that went on the wire.
Creates == {i \in TraceIndex : add.trace[i].kind = "create" /\ add.trace[i].sent}
Links == {i \in TraceIndex : add.trace[i].kind \in {"link", "link_v1", "os_link"} /\ add.trace[i].sent}
\* The root was created: the create answer carried an identifier.
RootCreated == \E i \in Creates : add.trace[i].ok /\ ~FalsyInt(add.trace[i].id)
\* The hardware components of the input that were resolved to no valid ID.
Unresolved == {j \in 1..Len(add.resolved) : ~Valid(add.resolved[j].id)}

\* C5: the payload of the root create holds no reference field whose value
\* is 1403 or 1404.
C5_Claim ==
    \A i \in Creates :
        \A k \in DOMAIN add.trace[i].payload \cap RefKeys :
            add.trace[i].payload[k] \notin Sentinels

\* C6: once the root is created, add returns its identifier, whatever
\* happens to the components and the operating system (here: even when the
\* session does not expire).
C6_Claim ==
    (add.pc = "done" /\ RootCreated /\ metrics.unauthorized = pre.metrics.unauthorized) =>
        /\ ~add.raised
        /\ add.val = add.computer_id

\* C7: with three hardware components of which exactly one is not resolved,
\* add returns the root identifier and two link requests are sent (here: when
\* the session does not expire and every link request that is sent succeeds).
C7_Claim ==
    (/\ add.pc = "done"
     /\ RootCreated
     /\ add.data = DataHardware
     /\ Len(add.resolved) = 3
     /\ Cardinality(Unresolved) = 1
     /\ metrics.unauthorized = pre.metrics.unauthorized
     /\ \A i \in Links : add.trace[i].ok) =>
        /\ ~add.raised
        /\ add.val = add.computer_id
        /\ Cardinality(Links) = 2

\* C8: when the root create succeeds at HTTP level and its answer has no
\* identifier, add raises, and no resolution or link request follows the
\* create; the exception is the creation error when the answer is a JSON
\* object (without id, or with a falsy id).
C8_NoIdentifierFails ==
    (\E i \in Creates : add.trace[i].ok /\ FalsyInt(add.trace[i].id)) =>
        /\ add.pc = "done"
        /\ add.raised
        /\ (add.trace[1].body = "dict" => add.exc = CreationFailed)
        /\ Links = {}
        /\ add.after_create = 0
        /\ Len(add.trace) = 1

\* A create answered without identifier, for an input with components.
C8_Witness ==
    /\ add.pc = "done"
    /\ add.exc = CreationFailed
    /\ add.data = DataHardware
    /\ add.trace[1].ok

\* C9 as stated: a finished add has sent exactly one root create, and every
\* link request follows a successful create.
C9_Claim ==
    add.pc = "done" =>
        /\ Cardinality(Creates) = 1
        /\ \A j \in Links : j > 1 /\ 1 \in Creates /\ add.trace[1].ok /\ ~FalsyInt(add.trace[1].id)

\* C9 amended: add sends at most one root create, exactly one when it
\* returns, and every link request follows a create that succeeded and
\* yielded the identifier.
C9_AtMostOneCreateBeforeLinks ==
    /\ Cardinality(Creates) <= 1
    /\ \A i \in TraceIndex : add.trace[i].kind = "create" => i = 1
    /\ (add.pc = "done" /\ ~add.raised) => Cardinality(Creates) = 1
    /\ \A j \in Links : j > 1 /\ 1 \in Creates /\ add.trace[1].ok /\ ~FalsyInt(add.trace[1].id)

\* An add that returned after sending links.
C9_Witness ==
    /\ add.pc = "done"
    /\ ~add.raised
    /\ Cardinality(Links) >= 2

----------------------------------------------------------------------------
\* More claims about the resolver (specification SpecResolve).

\* C11: getId with a query that is None or empty returns None and calls no
\* dispatcher: nothing is sent, the counters and the session are unchanged.
C11_EmptyQuerySendsNothing ==
    (last.op = "getId" /\ last.query \in {NoneText, <<>>}) =>
        /\ ~last.raised
        /\ last.val = PyNone
        /\ wire = <<>>
        /\ metrics = pre.metrics
        /\ session_token = pre.session_token
        /\ username = pre.username

\* getId("Manufacturer", "") on an authenticated adapter of the modern dialect.
C11_Witness ==
    /\ last.op = "getId"
    /\ last.query = <<>>
    /\ last.itemtype = "Manufacturer"
    /\ pre.session_token = "tokA"
    /\ pre.api_version = "v2"

----------------------------------------------------------------------------
\* The resolver of the modern dialect on lists of candidates (specification
\* SpecLookup).

\* Candidates: two whose names are the query up to case and whitespace, one
\* whose name only contains it, one unrelated.
Candidates == {Cand(9, NameAB), Cand(8, VariantAB), Cand(7, LongerAB), Cand(5, Text401)}

\* The lists of distinct candidates, in every order.
CandidateLists ==
    {s \in UNION {[1..n -> Candidates] : n \in 1..MaxCandidates} :
        \A i, j \in DOMAIN s : s[i] = s[j] => i = j}

\* The answers to a search: a list of candidates, or the empty list.
CandidateResponses == {Http(200, Items(s)) : s \in CandidateLists} \cup {Http(200, Items(<<>>))}
\* The same, and the answers that make a search fail.
LookupResponses == CandidateResponses \cup {Http(500, NotJson), Http(401, EmptyDict), Transport(TRUE)}

\* The queries: the name and two case and whitespace variants of it.
PaddedAB == <<" ", "a", " ", "B", " ">>
LookupQueries == {NameAB, VariantAB, PaddedAB}
\* A type searched by name and one searched by designation (lines 517-527).
LookupTypes == {"Manufacturer", "DeviceProcessor"}

\* getId(itemtype, query), called once on the adapter as constructed, the
\* service answering with lists of candidates.
GetIdLookupCall ==
    /\ last.op = "none"
    /\ \E itemtype \in LookupTypes, query \in LookupQueries :
         \E r \in GetIdOutcomes(Client, itemtype, query, LookupResponses) :
           Finish(r.c, r.sent,
                  [Nothing EXCEPT !.op = "getId", !.itemtype = itemtype, !.query = query,
                                  !.raised = r.raised, !.exc = r.exc, !.val = r.val])

NextLookup == GetIdLookupCall

SpecLookup == InitResolve /\ [][NextLookup]_vars

\* The candidates of the deciding answer, and those whose normalized name is
\* the normalized query.
DecidingItems == Deciding.resp.body.items
DecidingExact == {i \in 1..Len(DecidingItems) : norm(DecidingItems[i].name) = norm(last.query)}

\* C12: in the modern dialect, when the answer that decides getId holds a
\* candidate whose normalized name is the normalized query, getId returns the
\* ID of such a candidate, wherever it stands in the list; when the filtered
\* search is not empty and holds none, getId returns the ID of the first
\* candidate.
C12_ExactMatchPreferred ==
    (/\ last.op = "getId"
     /\ pre.api_version = "v2"
     /\ wire # <<>>
     /\ Deciding.dialect = "v2"
     /\ DecidingItems # <<>>) =>
        /\ ~last.raised
        /\ DecidingExact # {} => last.val \in {DecidingItems[i].id : i \in DecidingExact}
        /\ (DecidingExact = {} /\ Len(wire) = 1) => last.val = DecidingItems[1].id

\* The filtered search answers a candidate that contains the query before
\* the candidate that matches a variant of it.
C12_Witness ==
    /\ last.op = "getId"
    /\ pre.api_version = "v2"
    /\ last.query = VariantAB
    /\ Len(wire) = 1
    /\ DecidingItems = <<Cand(7, LongerAB), Cand(5, Text401), Cand(9, NameAB)>>
    /\ last.val = 9

----------------------------------------------------------------------------
\* More claims about the dispatcher (specification Spec).

\* The exchange of the last dispatcher call, when it sent one.
Sent == wire[1]
Status == Sent.resp.status

\* C13: every call of _send_request increases the requests counter by one,
\* whatever its outcome, the not-authenticated failure included.
C13_Claim ==
    last.op = "_send_request" => metrics.requests = pre.metrics.requests + 1

\* C14: a status 400-499 other than 401 adds one to errors and errors_4xx and
\* fails the call; a status of 500 or more adds one to errors and errors_5xx
\* and fails the call; a 401 adds one to unauthorized only.
C14_Claim ==
    (last.op = "_send_request" /\ wire # <<>> /\ Sent.resp.kind = "http") =>
        /\ (Status >= 400 /\ Status < 500 /\ Status # 401) =>
              /\ last.raised
              /\ metrics.errors = pre.metrics.errors + 1
              /\ metrics.errors_4xx = pre.metrics.errors_4xx + 1
              /\ metrics.errors_5xx = pre.metrics.errors_5xx
              /\ metrics.unauthorized = pre.metrics.unauthorized
        /\ Status >= 500 =>
              /\ last.raised
              /\ metrics.errors = pre.metrics.errors + 1
              /\ metrics.errors_5xx = pre.metrics.errors_5xx + 1
              /\ metrics.errors_4xx = pre.metrics.errors_4xx
              /\ metrics.unauthorized = pre.metrics.unauthorized
        /\ Status = 401 =>
              /\ metrics.unauthorized = pre.metrics.unauthorized + 1
              /\ metrics.errors = pre.metrics.errors
              /\ metrics.errors_4xx = pre.metrics.errors_4xx
              /\ metrics.errors_5xx = pre.metrics.errors_5xx

\* C15: when the request of a dispatcher call fails at network level, the
\* call raises the exception of the transport, and the error counters, the
\* unauthorized counter and the session are unchanged.
C15_TransportFailureLeavesCounters ==
    (last.op = "_send_request" /\ wire # <<>> /\ Sent.resp.kind = "transport") =>
        /\ last.raised
        /\ last.exc.kind = "ConnectionError"
        /\ metrics.errors = pre.metrics.errors
        /\ metrics.errors_4xx = pre.metrics.errors_4xx
        /\ metrics.errors_5xx = pre.metrics.errors_5xx
        /\ metrics.unauthorized = pre.metrics.unauthorized
        /\ session_token = pre.session_token
        /\ username = pre.username

\* A network failure on an authenticated adapter that has counted an error.
C15_Witness ==
    /\ last.op = "_send_request"
    /\ wire # <<>>
    /\ Sent.resp.kind = "transport"
    /\ pre.metrics.errors = 1
    /\ session_token # NoneStr

\* C16: one call of _send_request sends at most one request, in the dialect
\* selected when it was called, and leaves the selector alone.
C16_AtMostOneRequest ==
    last.op = "_send_request" =>
        /\ Len(wire) <= 1
        /\ api_version = pre.api_version
        /\ wire # <<>> => Sent.dialect = pre.api_version

\* A dispatcher call of the modern dialect answered with a server error.
C16_Witness ==
    /\ last.op = "_send_request"
    /\ pre.api_version = "v2"
    /\ Len(wire) = 1
    /\ Sent.resp.kind = "http"
    /\ Status = 500
    /\ last.raised

----------------------------------------------------------------------------
\* Claims about the session operations (specification Spec).

\* The first token request of the last init_session was answered with HTTP
\* 400, a JSON object with error invalid_request and a hint naming client_id.
HintedClientId ==
    /\ last.op = "init_session"
    /\ pre.api_version = "v2"
    /\ wire # <<>>
    /\ Sent.resp.kind = "http"
    /\ Status = 400
    /\ Sent.resp.json /\ Sent.resp.ctype /\ Sent.resp.body.t = "dict"
    /\ Sent.resp.error = "invalid_request"
    /\ Sent.resp.hint

\* C17: after such an answer init_session sends exactly one more token
\* request, with Basic authentication; when that one is answered 200 with an
\* access token the session holds the token; when it is not answered 200,
\* init_session fails with the client-credentials message and the credential
\* is as before.
C17_BasicAuthRetry ==
    HintedClientId =>
        /\ Len(wire) = 2
        /\ wire[2].via = "session"
        /\ wire[2].endpoint = "/token (basic)"
        /\ (/\ wire[2].resp.kind = "http"
            /\ wire[2].resp.status = 200
            /\ wire[2].resp.json
            /\ wire[2].resp.body.t = "dict"
            /\ wire[2].resp.token # NoneStr) =>
              /\ last.success
              /\ last.result = "token"
              /\ session_token = wire[2].resp.token
        /\ ~(wire[2].resp.kind = "http" /\ wire[2].resp.status = 200) =>
              /\ ~last.success
              /\ last.result = "client_credentials"
              /\ session_token = pre.session_token

\* A retry that was answered with a token.
C17_Witness ==
    /\ HintedClientId
    /\ pre.session_token = NoneStr
    /\ last.success
    /\ session_token = "tokB"

\* C18: a token request of the modern dialect answered 404 is reported as
\* v2_not_found, whatever the body, and grants no credential.
C18_Claim ==
    (/\ last.op = "init_session"
     /\ pre.api_version = "v2"
     /\ wire # <<>>
     /\ Sent.resp.kind = "http"
     /\ Status = 404) =>
        /\ ~last.success
        /\ last.result = "v2_not_found"
        /\ session_token = pre.session_token

\* C19: after kill_session on an adapter that held a credential, none is
\* held, in both dialects; in the modern dialect nothing was sent.
C19_Claim ==
    (last.op = "kill_session" /\ ~FalsyStr(pre.session_token)) =>
        /\ session_token = NoneStr
        /\ pre.api_version = "v2" => wire = <<>>

----------------------------------------------------------------------------
\* Two calls of getId in a row (specification SpecTwice).

\* The two calls together: the adapter after the second, the requests of
\* both, the result of the first and the result of the second.
TwiceResult(r1, r2) ==
    [c |-> r2.c, sent |-> r1.sent \o r2.sent, first |-> ResultOf(r1),
     raised |-> r2.raised, exc |-> r2.exc, val |-> r2.val]

\* The second call, on the adapter the first one left.  The service answers
\* every request as it did in the first call: the script is the same.
SecondCall(r1, itemtype, query, script) == TwiceResult(r1, GetId(r1.c, itemtype, query, script))

GetIdTwice(c, itemtype, query, script) == SecondCall(GetId(c, itemtype, query, script), itemtype, query, script)

GetIdTwiceCall ==
    /\ ResolveBudget
    /\ \E itemtype \in ItemTypes, query \in Queries :
         \E r \in OutcomesOf([script \in Scripts(Responses) |-> GetIdTwice(Client, itemtype, query, script)],
                             Responses) :
           Finish(r.c, r.sent,
                  [Nothing EXCEPT !.op = "getId twice", !.itemtype = itemtype, !.query = query,
                                  !.first = r.first,
                                  !.raised = r.raised, !.exc = r.exc, !.val = r.val])

NextTwice == GetIdTwiceCall

SpecTwice == InitResolve /\ [][NextTwice]_vars

\* C20 as stated: the second call gives what the first one gave, for every
\* answer of the service.
C20_Claim ==
    last.op = "getId twice" => last.first = ResultOf(last)

\* C20 amended: the second call gives what the first one gave, unless a
\* request of the first call was answered 401 in the legacy dialect; then the
\* first call raises the authorization failure and the second returns None.
C20_SameResultUnlessExpired ==
    last.op = "getId twice" =>
        IF pre.api_version = "v1" /\ Got401(wire)
          THEN /\ last.first.raised
               /\ last.first.exc = Unauthorized
               /\ ~last.raised
               /\ last.val = PyNone
          ELSE last.first = ResultOf(last)

\* Both calls went through the two searches of the modern dialect to the
\* legacy fallback, which found the ID.
C20_Witness ==
    /\ last.op = "getId twice"
    /\ pre.api_version = "v2"
    /\ Len(wire) = 6
    /\ last.first.val = 7
    /\ last.val = 7

----------------------------------------------------------------------------
\* Claims about the operating system link (SpecAdd).

\* The calls of _send_request that link the operating system.
OsLinks == {i \in TraceIndex : add.trace[i].kind = "os_link"}

\* The keys of the version and of the edition in the link payload.
OsVersionKey == IF api_version = "v2" THEN "operatingSystemVersion" ELSE "operatingsystemversions_id"
OsEditionKey == IF api_version = "v2" THEN "operatingSystemEdition" ELSE "operatingsystemeditions_id"
OsBaseKey == IF api_version = "v2" THEN "operatingSystem" ELSE "operatingsystems_id"

\* C21: the operating system link is requested only when the base name
\* resolved to a valid ID; its payload carries the version and the edition
\* exactly when that one resolved to a valid ID; and when add returned after
\* the three resolutions gave a valid base ID, the link was requested whatever
\* the version and the edition resolved to (it went on the wire unless the
\* session was lost meanwhile).
C21_OsLinkOnlyWhenResolved ==
    /\ \A i \in OsLinks :
         /\ Len(add.os_ids) = 3
         /\ Valid(add.os_ids[1])
         /\ add.trace[i].sent =>
              LET payload == add.trace[i].payload
              IN  /\ payload[OsBaseKey] = add.os_ids[1]
                  /\ OsVersionKey \in DOMAIN payload <=> Valid(add.os_ids[2])
                  /\ OsEditionKey \in DOMAIN payload <=> Valid(add.os_ids[3])
                  /\ OsVersionKey \in DOMAIN payload => payload[OsVersionKey] = add.os_ids[2]
                  /\ OsEditionKey \in DOMAIN payload => payload[OsEditionKey] = add.os_ids[3]
    /\ (add.pc = "done" /\ Len(add.os_ids) = 3 /\ ~Valid(add.os_ids[1])) => OsLinks = {}
    /\ (add.pc = "done" /\ ~add.raised /\ Len(add.os_ids) = 3 /\ Valid(add.os_ids[1])) =>
         \E i \in OsLinks : add.trace[i].sent \/ session_token = NoneStr

\* A link went out with the edition and without the version, which had not
\* resolved.
C21_Witness ==
    /\ add.pc = "done"
    /\ \E i \in OsLinks :
         /\ add.trace[i].sent
         /\ ~Valid(add.os_ids[2])
         /\ Valid(add.os_ids[3])
         /\ OsEditionKey \in DOMAIN add.trace[i].payload
         /\ OsVersionKey \notin DOMAIN add.trace[i].payload

----------------------------------------------------------------------------
\* Claims about the fields of the input (SpecAdd).

ScalarKeys == {"name", "serial", "comment"}

\* C22: a field whose value is "Unknown" is treated as absent: no request is
\* sent to resolve it, and the value is not in the payload of the root create.
C22_Claim ==
    /\ (add.pc = "refs" /\ add.i = 2 /\ DataGet(add.data, "location") = UnknownText) =>
          metrics.requests = pre.metrics.requests
    /\ \A i \in Creates :
          \A k \in DOMAIN add.trace[i].payload \cap ScalarKeys :
              add.trace[i].payload[k] # UnknownText

\* C23: when the name or the serial of the input is missing or empty, add
\* sends no request: no resolution request and no root create.
C23_Claim ==
    (/\ add.pc # "idle"
     /\ \/ FalsyText(DataGet(add.data, "name"))
        \/ FalsyText(DataGet(add.data, "serial"))) =>
        /\ metrics.requests = pre.metrics.requests
        /\ add.trace = <<>>

\* The keys of the hardware and of the operating system, in the input and in
\* the link payloads.
HardwareKeys ==
    {"cpu", "processor", "gpu", "ram", "hdd", "memory", "storage", "os",
     "processors", "graphicCards", "memories", "hardDrives", "operatingSystem"}

\* C24: in the modern dialect, for the input {name, serial, location} whose
\* location resolved to 7, the payload of the root create has location = 7,
\* the name and the serial and no hardware key, and no link request is sent.
C24_RootPayloadOfScenario ==
    (api_version = "v2" /\ add.pc # "idle" /\ add.data = DataRefs) =>
        /\ Links = {}
        /\ \A i \in TraceIndex : add.trace[i].kind = "create"
        /\ \A i \in Creates :
             add.refs[1] = 7 =>
                LET payload == add.trace[i].payload
                IN  /\ {"location", "name", "serial"} \subseteq DOMAIN payload
                    /\ payload["location"] = 7
                    /\ payload["name"] = DataRefs.name
                    /\ payload["serial"] = DataRefs.serial
                    /\ DOMAIN payload \cap HardwareKeys = {}

\* add returned the new identifier after a create that carried location = 7.
C24_Witness ==
    /\ api_version = "v2"
    /\ add.data = DataRefs
    /\ add.pc = "done"
    /\ add.val = 42
    /\ add.refs[1] = 7
    /\ Creates # {}

----------------------------------------------------------------------------
\* _send_request called on several threads at once (specification
\* SpecThreads).  A thread can be suspended between any two statements, and
\* between the read and the write of `self.metrics[...] += 1`; the code takes
\* no lock.

\* The answers of the service to the threads' requests.
ThreadResponses == {Http(200, EmptyDict), Http(401, EmptyDict), Http(500, EmptyDict), Transport(FALSE)}

SetThread(t, rec) == threads' = [threads EXCEPT ![t] = rec]
Done(rec, outcome) == [rec EXCEPT !.pc = "done", !.outcome = outcome]
\* `self.metrics[counter] += 1` begins.
Count(rec, counter) == [rec EXCEPT !.pc = "load", !.counter = counter]

ThreadFrame == UNCHANGED <<config, api_version, expired, pre, last, wire, add>>

\* A thread of the application calls _send_request.
ThreadCall(t) ==
    /\ threads[t].pc = "idle"
    /\ SetThread(t, [threads[t] EXCEPT !.pc = "check"])
    /\ UNCHANGED <<session_token, username, metrics>>
    /\ ThreadFrame

\* Lines 272-273.
ThreadCheck(t) ==
    /\ threads[t].pc = "check"
    /\ SetThread(t, IF HoldsCredential(Client)
                      THEN [threads[t] EXCEPT !.pc = "headers", !.passed = TRUE]
                      ELSE Done(threads[t], "not authenticated"))
    /\ UNCHANGED <<session_token, username, metrics>>
    /\ ThreadFrame

\* Lines 275-295: the headers are built from self.session_token as it is now.
ThreadHeaders(t) ==
    /\ threads[t].pc = "headers"
    /\ SetThread(t, Count([threads[t] EXCEPT !.cred = session_token,
                                             !.dialect = IF api_version = "v2" THEN "v2" ELSE "v1"],
                          "requests"))
    /\ UNCHANGED <<session_token, username, metrics>>
    /\ ThreadFrame

\* The read of `self.metrics[counter] += 1` (lines 304, 315, 319, 321, 323).
ThreadLoad(t) ==
    /\ threads[t].pc = "load"
    /\ SetThread(t, [threads[t] EXCEPT !.pc = "store", !.tmp = metrics[threads[t].counter]])
    /\ UNCHANGED <<session_token, username, metrics>>
    /\ ThreadFrame

\* What follows the counter: the request (lines 305-309), the class of the
\* error (lines 320-323), or the exception (lines 316, 324).
AfterStore(rec) ==
    CASE rec.counter = "requests" -> [rec EXCEPT !.pc = "wait"]
      [] rec.counter = "unauthorized" -> Done(rec, "raised")
      [] rec.counter = "errors" ->
           Count(rec, IF rec.status >= 400 /\ rec.status < 500 THEN "errors_4xx" ELSE "errors_5xx")
      [] OTHER -> Done(rec, IF rec.status < 600 THEN "raised" ELSE "returned")

\* The write of `self.metrics[counter] += 1`.
ThreadStore(t) ==
    /\ threads[t].pc = "store"
    /\ metrics' = [metrics EXCEPT ![threads[t].counter] = threads[t].tmp + 1]
    /\ SetThread(t, AfterStore(threads[t]))
    /\ UNCHANGED <<session_token, username>>
    /\ ThreadFrame

\* The service answers the request of thread t, which was waiting in
\* requests.request (lines 300-301, called without a timeout); lines 311,
\* 317 and 325-328 choose what follows.
ThreadAnswer(t) ==
    /\ threads[t].pc = "wait"
    /\ \E resp \in ThreadResponses :
         SetThread(t, IF resp.kind = "transport" THEN Done(threads[t], "raised")
                      ELSE IF resp.status = 401
                        THEN [threads[t] EXCEPT !.pc = "clear_token", !.status = resp.status]
                      ELSE IF resp.status >= 400
                        THEN Count([threads[t] EXCEPT !.status = resp.status], "errors")
                      ELSE Done([threads[t] EXCEPT !.status = resp.status], "returned"))
    /\ UNCHANGED <<session_token, username, metrics>>
    /\ ThreadFrame

\* Line 312.
ThreadClearToken(t) ==
    /\ threads[t].pc = "clear_token"
    /\ session_token' = NoneStr
    /\ SetThread(t, [threads[t] EXCEPT !.pc = "clear_user"])
    /\ UNCHANGED <<username, metrics>>
    /\ ThreadFrame

\* Lines 313-315.
ThreadClearUser(t) ==
    /\ threads[t].pc = "clear_user"
    /\ username' = NoneText
    /\ SetThread(t, Count(threads[t], "unauthorized"))
    /\ UNCHANGED <<session_token, metrics>>
    /\ ThreadFrame

\* A step of thread t itself.
ThreadStep(t) ==
    \/ ThreadCall(t)
    \/ ThreadCheck(t)
    \/ ThreadHeaders(t)
    \/ ThreadLoad(t)
    \/ ThreadStore(t)
    \/ ThreadClearToken(t)
    \/ ThreadClearUser(t)

NextThreads == \E t \in Threads : ThreadStep(t) \/ ThreadAnswer(t)

SpecThreads == InitResolve /\ [][NextThreads]_vars

\* The scheduler runs every thread that can take a step; nothing makes the
\* service answer.
SpecThreadsLive == SpecThreads /\ \A t \in Threads : WF_vars(ThreadStep(t))

\* C25: no request goes out with a null credential in its headers: the
\* credential a call tested is the one its headers carry.
C25_Claim ==
    \A t \in Threads : threads[t].pc = "wait" => threads[t].cred # NoneStr

\* C26: when every call is over, the requests counter is the number of calls
\* that passed the not-authenticated check.
C26_Claim ==
    (\A t \in Threads : threads[t].pc = "done") =>
        metrics.requests = Cardinality({t \in Threads : threads[t].passed})

\* C27: a call that waits for the service is over in the end, even when the
\* service never answers.
C27_Claim ==
    \A t \in Threads : (threads[t].pc = "wait") ~> (threads[t].pc = "done")

----------------------------------------------------------------------------
\* The scan of the unfiltered collection (SpecLookup).

\* The filtered search of the last getId failed or found nothing.
Answered(x) == x.resp.kind = "http" /\ x.resp.status < 400 /\ x.resp.body.t = "list"
FilterFailed == ~Answered(wire[1]) \/ wire[1].resp.body.items = <<>>
\* The candidates of the collection, those equal to the query after norm and
\* those that contain it.
Collection == IF Len(wire) >= 2 /\ Answered(wire[2]) THEN wire[2].resp.body.items ELSE <<>>
CollectionExact == {i \in 1..Len(Collection) : norm(Collection[i].name) = norm(last.query)}
CollectionContains == {i \in 1..Len(Collection) : Contains(norm(Collection[i].name), norm(last.query))}

\* C28: in the modern dialect, for a mapped type, when the filtered search
\* fails or answers the empty list, getId fetches the unfiltered collection
\* of the same endpoint, returns the ID of the first candidate equal to the
\* query after norm if there is one, else of the first that contains it, and
\* goes on to the legacy search only when there is neither.  A request that
\* is answered 401 is the last one on the wire (the session is lost), and
\* getId then returns 1404.
C28_CollectionScan ==
    (/\ last.op = "getId"
     /\ pre.api_version = "v2"
     /\ last.itemtype \in MappedTypes
     /\ wire # <<>>
     /\ FilterFailed) =>
        /\ ~Got401(<<wire[1]>>) =>
              /\ Len(wire) >= 2
              /\ wire[2].dialect = "v2"
              /\ wire[2].method = "GET"
              /\ wire[2].endpoint = ListV2(last.itemtype).endpoint
              /\ wire[2].itemtype = wire[1].itemtype
              /\ wire[2].q = <<>>
        /\ CollectionExact # {} =>
              /\ Len(wire) = 2
              /\ last.val = Collection[Min(CollectionExact)].id
        /\ (CollectionExact = {} /\ CollectionContains # {}) =>
              /\ Len(wire) = 2
              /\ last.val = Collection[Min(CollectionContains)].id
        /\ Len(wire) = 3 =>
              /\ CollectionContains = {}
              /\ wire[3].dialect = "v1"
              /\ wire[3].endpoint = SearchV1(last.itemtype, last.query).endpoint
        /\ (CollectionContains = {} /\ ~Got401(wire)) => Len(wire) = 3
        /\ Got401(wire) => (~Got401(SubSeq(wire, 1, Len(wire) - 1)) /\ last.val = NOT_FOUND)

\* The filtered search failed, and the collection holds a candidate that
\* contains the query before the one that equals it.
C28_Witness ==
    /\ last.op = "getId"
    /\ pre.api_version = "v2"
    /\ Len(wire) = 2
    /\ ~Answered(wire[1])
    /\ Collection = <<Cand(7, LongerAB), Cand(9, NameAB)>>
    /\ last.query = PaddedAB
    /\ last.val = 9

----------------------------------------------------------------------------
\* _sanitize_v2_computer_payload on its own (specification SpecSanitize).

\* The payloads add can build (lines 458-466): what getId gives for the
\* reference fields, and texts, blank texts and None for the scalar fields.
RefValues == {PyNone, 0, 7, PERMISSION_DENIED, NOT_FOUND}
ScalarValues == {NoneText, <<>>, <<" ", " ">>, NameAB}
SanitizeInputs ==
    [name : ScalarValues, serial : {NameAB, <<" ", " ">>}, comment : {NoneText, NameAB},
     location : RefValues, manufacturer : RefValues, user : {7, PERMISSION_DENIED}, model : {7, NOT_FOUND}]

SanitizeCall ==
    /\ last.op = "none"
    /\ \E payload \in SanitizeInputs :
         Finish(Client, <<>>,
                [Nothing EXCEPT !.op = "_sanitize_v2_computer_payload",
                                !.payload = payload, !.sanitized = Sanitize(payload)])

NextSanitize == SanitizeCall

SpecSanitize == InitResolve /\ [][NextSanitize]_vars

\* C29: the sanitized payload holds a reference key exactly when its value is
\* a positive integer other than 1403 and 1404, a scalar key exactly when its
\* value is not None and not an empty or whitespace-only text, and every key
\* it holds with the value the payload had.
C29_SanitizedPayload ==
    last.op = "_sanitize_v2_computer_payload" =>
        /\ DOMAIN last.sanitized \subseteq DOMAIN last.payload
        /\ \A k \in DOMAIN last.payload \cap {"location", "user", "model", "manufacturer"} :
             k \in DOMAIN last.sanitized <=>
                (last.payload[k] >= 1 /\ last.payload[k] # 1403 /\ last.payload[k] # 1404)
        /\ \A k \in DOMAIN last.payload \cap ScalarKeys :
             k \in DOMAIN last.sanitized <=>
                (last.payload[k] # NoneText /\ Split(last.payload[k]) # <<>>)
        /\ \A k \in DOMAIN last.sanitized : last.sanitized[k] = last.payload[k]

\* A payload of which a sentinel, a zero and a blank name are dropped and a
\* resolved manufacturer is kept.
C29_Witness ==
    /\ last.op = "_sanitize_v2_computer_payload"
    /\ last.payload.location = NOT_FOUND
    /\ last.payload.user = PERMISSION_DENIED
    /\ last.payload.manufacturer = 7
    /\ last.payload.name = <<" ", " ">>
    /\ DOMAIN last.sanitized = {"serial", "manufacturer", "model"}

----------------------------------------------------------------------------
\* Every operation of the adapter on one session (specification SpecFrame).

\* On an adapter that is logged in or not: either the session operations and
\* the dispatcher in any order, or one call of the resolver, or one call of
\* add.
NextFrame ==
    \/ last.op \notin {"getId", "_link_component_v1"} /\ add.pc = "idle" /\ Next
    \/ last.op = "none" /\ add.pc = "idle" /\ NextResolve
    \/ last.op = "none" /\ NextAdd

SpecFrame == InitResolve /\ [][NextFrame]_vars

\* C30: the session credential changes only by a successful init_session or
\* verify_session, by kill_session, which clears it, or by a 401 that
\* _send_request observed, which clears it; getId, _link_component_v1 and the
\* steps of add change it in the last way only.
C30_CredentialTransitions ==
    [][session_token' # session_token =>
         \/ /\ add' = add
            /\ last'.op \in {"init_session", "verify_session"}
            /\ last'.success
         \/ /\ add' = add
            /\ last'.op = "kill_session"
            /\ session_token' = NoneStr
         \/ /\ add' = add
            /\ Got401(wire')
            /\ session_token' = NoneStr
         \/ /\ add' # add
            /\ metrics'.unauthorized > metrics.unauthorized
            /\ session_token' = NoneStr]_vars

\* getId lost the session to a 401 after init_session had set it.
C30_Witness ==
    /\ last.op = "getId"
    /\ pre.session_token # NoneStr
    /\ session_token = NoneStr
    /\ Got401(wire)

----------------------------------------------------------------------------
\* Claims about verify_session (Spec).

\* C31: verify_session(token) sends one GET that carries the token, returns
\* True exactly when the answer has status 200, and then the token is the
\* active credential; on every other status and on a network exception it
\* returns False, raises nothing, and the active credential is the one held
\* before the call.
C31_VerifySession ==
    last.op = "verify_session" =>
        /\ ~last.raised
        /\ Len(wire) = 1
        /\ wire[1].via = "session"
        /\ wire[1].credential \in Tokens
        /\ last.success <=> (wire[1].resp.kind = "http" /\ wire[1].resp.status = 200)
        /\ last.result = (IF last.success THEN "true" ELSE "false")
        /\ last.success => session_token = wire[1].credential
        /\ ~last.success => session_token = pre.session_token
        /\ username = pre.username /\ api_version = pre.api_version /\ metrics = pre.metrics

\* A token other than the one held is verified and becomes the credential,
\* after a login had set the other one.
C31_Witness ==
    /\ last.op = "verify_session"
    /\ last.success
    /\ pre.session_token \in Tokens
    /\ session_token # pre.session_token

----------------------------------------------------------------------------
\* getId on several threads at once (specification SpecFallback): the
\* validation threads of the Add Computer form, one for each click, call
\* getId on the adapter they share.  The adapter is configured for v2.  The
\* code takes no lock, and a thread that waits in requests.request lets the
\* others run.  The service answers as in ThreadResponses, none of which is a
\* list of candidates, so a call that starts in _getId_v2 goes on to
\* _getId_v1_fallback.

InitFallback == InitResolve /\ config.api_version = "v2"

FallbackFrame == UNCHANGED <<config, session_token, username, metrics, expired, pre, last, wire, add>>

\* getId, line 433: the dialect as it is now chooses _getId_v2 or the v1
\* search; _getId_v2 (line 527) sends its two searches for a type it has an
\* endpoint for, and goes to _getId_v1_fallback at once for any other.
GetIdEnter(t) ==
    /\ threads[t].pc = "idle"
    /\ \E itemtype \in ItemTypes :
         SetThread(t, IF api_version # "v2" THEN [threads[t] EXCEPT !.pc = "check", !.stage = "direct"]
                      ELSE IF itemtype \in MappedTypes
                        THEN [threads[t] EXCEPT !.pc = "check", !.stage = "filter"]
                      ELSE [threads[t] EXCEPT !.pc = "save", !.stage = "fallback"])
    /\ UNCHANGED api_version
    /\ FallbackFrame

\* _getId_v2, lines 529-559: the filtered search gave no candidate or raised
\* (line 541 swallows it), then the same for the unfiltered one.
GetIdV2Next(t) ==
    /\ threads[t].pc = "done"
    /\ threads[t].stage \in {"filter", "list"}
    /\ SetThread(t, IF threads[t].stage = "filter"
                      THEN [threads[t] EXCEPT !.pc = "check", !.stage = "list"]
                      ELSE [threads[t] EXCEPT !.pc = "save", !.stage = "fallback"])
    /\ UNCHANGED api_version
    /\ FallbackFrame

\* Line 570: original_api_version = self.api_version.
FallbackSave(t) ==
    /\ threads[t].pc = "save"
    /\ SetThread(t, [threads[t] EXCEPT !.pc = "switch", !.original = api_version])
    /\ UNCHANGED api_version
    /\ FallbackFrame

\* Lines 571-576: self.api_version = "v1", and _send_request is called.
FallbackSwitch(t) ==
    /\ threads[t].pc = "switch"
    /\ api_version' = "v1"
    /\ SetThread(t, [threads[t] EXCEPT !.pc = "check"])
    /\ FallbackFrame

\* Lines 594-596: whatever _send_request returned or raised, the finally
\* block assigns the saved value, and the call returns or raises.
FallbackRestore(t) ==
    /\ threads[t].pc = "done"
    /\ threads[t].stage = "fallback"
    /\ api_version' = threads[t].original
    /\ SetThread(t, [threads[t] EXCEPT !.pc = "finished"])
    /\ FallbackFrame

\* getId, lines 436-451: the v1 search of getId itself is over.
GetIdV1Return(t) ==
    /\ threads[t].pc = "done"
    /\ threads[t].stage = "direct"
    /\ SetThread(t, [threads[t] EXCEPT !.pc = "finished"])
    /\ UNCHANGED api_version
    /\ FallbackFrame

\* A step of thread t in getId.
FallbackStep(t) ==
    \/ GetIdEnter(t)
    \/ GetIdV2Next(t)
    \/ FallbackSave(t)
    \/ FallbackSwitch(t)
    \/ ThreadCheck(t)
    \/ ThreadHeaders(t)
    \/ ThreadLoad(t)
    \/ ThreadStore(t)
    \/ ThreadAnswer(t)
    \/ ThreadClearToken(t)
    \/ ThreadClearUser(t)
    \/ FallbackRestore(t)
    \/ GetIdV1Return(t)

NextFallback == \E t \in Threads : FallbackStep(t)

SpecFallback == InitFallback /\ [][NextFallback]_vars

\* C32: once the concurrent calls of getId, all of which took the legacy
\* fallback, are over, api_version is the configured modern value.  The calls
\* are those of a session that is logged in: each passed the
\* not-authenticated check and sent a request.
C32_Claim ==
    (\A t \in Threads : threads[t].pc = "finished" /\ threads[t].stage = "fallback" /\ threads[t].passed)
        => api_version = config.api_version

----------------------------------------------------------------------------
\* Claims about the outcome of init_session (Spec).

\* C33: when init_session has returned success, the adapter holds a
\* credential, so the test at the head of _send_request (lines 272-273) lets
\* the next dispatcher call through; also when the 200 answer of the login
\* endpoint has no token field.
C33_Claim ==
    (last.op = "init_session" /\ last.success) => HoldsCredential(Client)

----------------------------------------------------------------------------
\* Claims about the failures of getId in the legacy dialect (SpecResolve).

\* The request of the last getId failed: it was refused for want of a
\* credential, or was answered with an error status, or got no answer.
LegacyFailed ==
    /\ ~FalsyText(last.query)
    /\ \/ wire = <<>>
       \/ wire[1].resp.kind = "transport"
       \/ wire[1].resp.status >= 400

\* C34: in the legacy dialect getId raises only when its dispatcher call was
\* answered 401; after any other failure it returns None, whatever the text
\* of the query.
C34_Claim ==
    (last.op = "getId" /\ pre.api_version = "v1") =>
        /\ last.raised => Got401(wire)
        /\ (LegacyFailed /\ ~Got401(wire)) => (~last.raised /\ last.val = PyNone)

----------------------------------------------------------------------------
\* Claims about the counters (SpecFrame).

MetricNames == DOMAIN ZeroMetrics

----------------------------------------------------------------------------
\* Claims about a failed login (Spec).

\* C36: when init_session has failed, the credential and the username are
\* the ones held before the call.
C36_Claim ==
    (last.op = "init_session" /\ ~last.success) =>
        /\ session_token = pre.session_token
        /\ username = pre.username

----------------------------------------------------------------------------
\* Claims about the legacy link after a failed PATCH (SpecAdd).

\* The calls add made to link a hardware component: the PATCH or POST of the
\* configured dialect, and the calls of _link_component_v1.
FailedPatches == {i \in TraceIndex : add.trace[i].kind = "link" /\ ~add.trace[i].ok}
LegacyLinks == {i \in TraceIndex : add.trace[i].kind = "link_v1"}
\* The components of the input that addToItemtype has to process.
Supplied == {k \in 1..Len(HardwareComponents) : ~FalsyText(DataGet(add.data, HardwareComponents[k]))}

\* C37: in v2, a PATCH that failed to link a resolved component is followed
\* by one call of _link_component_v1 for the same component and by no other:
\* its request is in the legacy dialect, and goes on the wire unless the
\* failure of the PATCH was a 401 that ended the session; it is the only
\* source of legacy links; its failure does not end add; api_version is v2
\* afterwards; and add goes on to process every component of the input.
C37_LegacyLinkAfterFailedPatch ==
    (config.api_version = "v2" /\ add.pc # "idle") =>
        /\ api_version = "v2"
        /\ \A i \in FailedPatches :
             IF i = Len(add.trace) THEN add.pc = "link_v1"
             ELSE /\ add.trace[i + 1].kind = "link_v1"
                  /\ add.trace[i + 1].component = add.trace[i].component
                  /\ add.trace[i + 1].sent => add.trace[i + 1].dialect = "v1"
                  /\ add.trace[i + 1].sent \/ session_token = NoneStr
        /\ \A j \in LegacyLinks :
             /\ j - 1 \in FailedPatches
             /\ add.trace[j - 1].sent
        /\ (add.pc = "done" /\ FailedPatches # {}) =>
             /\ ~add.raised
             /\ add.val = add.computer_id
             /\ \A k \in Supplied :
                  \E n \in 1..Len(add.resolved) : add.resolved[n].component = HardwareComponents[k]

\* The PATCH of the processor failed, the legacy link that followed failed
\* too, and add went on to link the graphics card and returned the ID.
C37_Witness ==
    /\ config.api_version = "v2"
    /\ add.pc = "done"
    /\ ~add.raised
    /\ \E i \in FailedPatches :
         /\ add.trace[i].component = "processor"
         /\ add.trace[i + 1].kind = "link_v1" /\ add.trace[i + 1].sent /\ ~add.trace[i + 1].ok
         /\ \E j \in TraceIndex :
              j > i + 1 /\ add.trace[j].kind = "link" /\ add.trace[j].component = "gpu" /\ add.trace[j].ok

====
